---------------------------- MODULE Spec2Model ----------------------------
(***************************************************************************)
(* jinja2.utils.LRUCache (src/src/jinja2/utils.py, lines 398-552).         *)
(*                                                                         *)
(* The cache is a dict (_mapping) paired with a deque of keys (_queue,     *)
(* least recently used first).  Every method is modelled as an operator    *)
(* that maps the object's fields to the fields after the call together     *)
(* with the value returned or the exception raised; one action per public  *)
(* method applies that operator to the state (Spec).                       *)
(*                                                                         *)
(* SpecObjects puts the dicts, deques and locks on a heap of objects, so   *)
(* that copy(), __getstate__ / __setstate__ and the returned lists can     *)
(* share or not share them.  SpecThreads runs the methods of one instance  *)
(* statement by statement in two threads under self._wlock;                *)
(* SpecGuardedFair runs the methods that acquire the lock, under a         *)
(* scheduler that keeps running some runnable thread.                      *)
(***************************************************************************)
EXTENDS Integers, Sequences, FiniteSets, TLC

\* ---------------------------------------------------------------- bounds
MaxKey == 3
MaxVal == 1
MaxCapacity == 2
\* keys used where several objects are modelled at once
MaxObjKey == 2

\* Python's None: the default of get() and setdefault(), and the value of a
\* call that returns nothing.
None == 0

Keys == 1..MaxKey
Values == 1..MaxVal
\* what a caller may pass as value or as default: a value or None
Args == Values \cup {None}
\* LRUCache.__init__ stores whatever capacity it is given, unvalidated
Capacities == (0 - 1)..MaxCapacity

VARIABLES
    capacity,   \* self.capacity
    _mapping,   \* self._mapping : key -> value
    _queue,     \* self._queue   : keys, least recently used first
    touch,      \* ghost: rank (1 = oldest) of each stored key's latest touch
    written,    \* ghost: key -> the value last set and not undone since
    last,       \* ghost: the call just completed [op, key, arg]
    pre,        \* ghost: the fields and touch when that call started
    exc,        \* the exception the call raised, or "none"
    rv,         \* the value the call returned (None when it returns nothing)
    out,        \* the list the call returned (items, keys, values, iteration)
    \* objects and references (copy, __getstate__ / __setstate__, results)
    dicts,      \* heap: id -> contents of a dict object
    seqs,       \* heap: id -> contents of a deque object
    locks,      \* heap: id -> whether the Lock object is held
    caches,     \* id -> LRUCache instance: its attributes, as references
    state,      \* the dict a caller got from __getstate__ (or NoState)
    result,     \* the sequence a caller got from a listing method
    self,       \* the instance the last call was made on (0: none)
    origin,     \* ghost: how Made was made ("none", "copy", "setstate")
    \* threads calling the methods of one instance
    wlock,      \* self._wlock: the thread holding it (0: free)
    pc,         \* thread -> the statement it executes next ("idle": no call)
    frame,      \* thread -> the call it is in [op, key, arg]
    local,      \* thread -> the local variables of that call
    calls,      \* how many calls the threads have made in all
    lin,        \* ghost: store and queue after the guarded sections entered
                \* so far, each applied at once in the order of entry
    base,       \* ghost: lin before the guarded section now in progress
    expect,     \* ghost: thread -> what its guarded section does when
                \* applied at once at entry
    seen        \* ghost: thread -> the values of base and lin since its
                \* unguarded call began

seqVars == <<capacity, _mapping, _queue, touch, written, pre, out>>

callVars == <<last, exc, rv>>

objVars == <<dicts, seqs, locks, caches, state, result, self, origin>>

thrVars == <<wlock, pc, frame, local, calls, lin, base, expect, seen>>

vars == <<seqVars, callVars, objVars, thrVars>>

\* ------------------------------------------------------------- helpers
Range(s) == {s[i] : i \in 1..Len(s)}

Reverse(s) == [i \in 1..Len(s) |-> s[Len(s) + 1 - i]]

EmptyDict == [k \in {} |-> None]

\* d[key] = value
Store(d, key, value) ==
    [k \in DOMAIN d \cup {key} |-> IF k = key THEN value ELSE d[k]]

\* del d[key]
Drop(d, key) == [k \in DOMAIN d \ {key} |-> d[k]]

\* deque.remove(x): removes the first occurrence (the caller has checked
\* that there is one; otherwise the deque raises ValueError)
_remove(q, x) ==
    LET i == CHOOSE n \in 1..Len(q) :
                 q[n] = x /\ \A j \in 1..(n - 1) : q[j] # x
    IN  SubSeq(q, 1, i - 1) \o SubSeq(q, i + 1, Len(q))

\* an append that leaves the deque as it is
Mutant_append_Nothing(q, x) == q

\* deque.append(x)
_append(q, x) == Append(q, x)

\* outcome of a method: fields afterwards, value returned, exception raised
Return(value, m, q) ==
    [exc |-> "none", rv |-> value, mapping |-> m, queue |-> q]

Raise(e, m, q) ==
    [exc |-> e, rv |-> None, mapping |-> m, queue |-> q]

\* ------------------------------------------------------------- methods
\* __getitem__ that returns the value without moving the key to the back
Mutant_getitem_NoMove(m, q, key) ==
    IF key \notin DOMAIN m THEN Raise("KeyError", m, q)
    ELSE IF q = <<>> THEN Raise("IndexError", m, q)
    ELSE Return(m[key], m, q)

\* __getitem__ that reads with self._mapping.get(key): a missing key does not
\* raise and is queued like a found one
Mutant_getitem_Lenient(m, q, key) ==
    IF q = <<>> THEN Raise("IndexError", m, q)
    ELSE IF q[Len(q)] # key
         THEN Return(IF key \in DOMAIN m THEN m[key] ELSE None, m,
                     _append(IF key \in Range(q) THEN _remove(q, key) ELSE q,
                             key))
         ELSE Return(IF key \in DOMAIN m THEN m[key] ELSE None, m, q)

__getitem__(m, q, key) ==
    IF key \notin DOMAIN m THEN Raise("KeyError", m, q)
    ELSE IF q = <<>> THEN Raise("IndexError", m, q)
    ELSE IF q[Len(q)] # key
         THEN Return(m[key], m,
                     _append(IF key \in Range(q) THEN _remove(q, key) ELSE q,
                             key))
         ELSE Return(m[key], m, q)

\* __setitem__ that keeps the value of a stored key (it only moves the key)
Mutant_setitem_KeepsOldValue(m, q, cap, key, value) ==
    IF key \in DOMAIN m
    THEN IF key \notin Range(q)
         THEN Raise("ValueError", m, q)
         ELSE Return(None, m, _append(_remove(q, key), key))
    ELSE IF Cardinality(DOMAIN m) = cap
    THEN IF q = <<>>
         THEN Raise("IndexError", m, q)
         ELSE IF Head(q) \notin DOMAIN m
         THEN Raise("KeyError", m, Tail(q))
         ELSE Return(None, Store(Drop(m, Head(q)), key, value),
                     _append(Tail(q), key))
    ELSE Return(None, Store(m, key, value), _append(q, key))

\* __setitem__ that tests len(self._mapping) > self.capacity
Mutant_setitem_NeverFull(m, q, cap, key, value) ==
    IF key \in DOMAIN m
    THEN IF key \notin Range(q)
         THEN Raise("ValueError", m, q)
         ELSE Return(None, Store(m, key, value), _append(_remove(q, key), key))
    ELSE IF Cardinality(DOMAIN m) > cap
    THEN IF q = <<>>
         THEN Raise("IndexError", m, q)
         ELSE IF Head(q) \notin DOMAIN m
         THEN Raise("KeyError", m, Tail(q))
         ELSE Return(None, Store(Drop(m, Head(q)), key, value),
                     _append(Tail(q), key))
    ELSE Return(None, Store(m, key, value), _append(q, key))

\* __setitem__ that evicts with self._pop() (the newest key) instead of
\* self._popleft()
Mutant_setitem_EvictsNewest(m, q, cap, key, value) ==
    IF key \in DOMAIN m
    THEN IF key \notin Range(q)
         THEN Raise("ValueError", m, q)
         ELSE Return(None, Store(m, key, value), _append(_remove(q, key), key))
    ELSE IF Cardinality(DOMAIN m) = cap
    THEN IF q = <<>>
         THEN Raise("IndexError", m, q)
         ELSE IF q[Len(q)] \notin DOMAIN m
         THEN Raise("KeyError", m, SubSeq(q, 1, Len(q) - 1))
         ELSE Return(None, Store(Drop(m, q[Len(q)]), key, value),
                     _append(SubSeq(q, 1, Len(q) - 1), key))
    ELSE Return(None, Store(m, key, value), _append(q, key))

\* __setitem__ that only queues a new key: a stored key gets the new value
\* where it stands
Mutant_setitem_NoMove(m, q, cap, key, value) ==
    IF key \in DOMAIN m
    THEN Return(None, Store(m, key, value), q)
    ELSE IF Cardinality(DOMAIN m) = cap
    THEN IF q = <<>>
         THEN Raise("IndexError", m, q)
         ELSE IF Head(q) \notin DOMAIN m
         THEN Raise("KeyError", m, Tail(q))
         ELSE Return(None, Store(Drop(m, Head(q)), key, value),
                     _append(Tail(q), key))
    ELSE Return(None, Store(m, key, value), _append(q, key))

\* __setitem__ that tests the capacity before the presence of the key: a
\* full cache evicts also when the key is stored
Mutant_setitem_EvictsWhenFull(m, q, cap, key, value) ==
    IF Cardinality(DOMAIN m) = cap
    THEN IF q = <<>>
         THEN Raise("IndexError", m, q)
         ELSE IF Head(q) \notin DOMAIN m
         THEN Raise("KeyError", m, Tail(q))
         ELSE Return(None, Store(Drop(m, Head(q)), key, value),
                     _append(IF key \in Range(Tail(q))
                             THEN _remove(Tail(q), key)
                             ELSE Tail(q),
                             key))
    ELSE IF key \in DOMAIN m
    THEN IF key \notin Range(q)
         THEN Raise("ValueError", m, q)
         ELSE Return(None, Store(m, key, value), _append(_remove(q, key), key))
    ELSE Return(None, Store(m, key, value), _append(q, key))

__setitem__(m, q, cap, key, value) ==
    IF key \in DOMAIN m
    THEN IF key \notin Range(q)
         THEN Raise("ValueError", m, q)
         ELSE Return(None, Store(m, key, value), _append(_remove(q, key), key))
    ELSE IF Cardinality(DOMAIN m) = cap
    THEN IF q = <<>>
         THEN Raise("IndexError", m, q)
         ELSE IF Head(q) \notin DOMAIN m
         THEN Raise("KeyError", m, Tail(q))
         ELSE Return(None, Store(Drop(m, Head(q)), key, value),
                     _append(Tail(q), key))
    ELSE Return(None, Store(m, key, value), _append(q, key))

\* __delitem__ that drops the oldest key of the queue (self._popleft())
\* instead of the deleted one
Mutant_delitem_PopsLeft(m, q, key) ==
    IF key \notin DOMAIN m THEN Raise("KeyError", m, q)
    ELSE Return(None, Drop(m, key), IF q = <<>> THEN q ELSE Tail(q))

\* __delitem__ that forgets self._remove(key)
Mutant_delitem_KeepsQueue(m, q, key) ==
    IF key \notin DOMAIN m THEN Raise("KeyError", m, q)
    ELSE Return(None, Drop(m, key), q)

__delitem__(m, q, key) ==
    IF key \notin DOMAIN m THEN Raise("KeyError", m, q)
    ELSE Return(None, Drop(m, key),
                IF key \in Range(q) THEN _remove(q, key) ELSE q)

clear(m, q) == Return(None, EmptyDict, <<>>)

\* get without the except clause
Mutant_get_Uncaught(m, q, key, default) == __getitem__(m, q, key)

get(m, q, key, default) ==
    LET r == __getitem__(m, q, key)
    IN  IF r.exc = "KeyError" THEN Return(default, r.mapping, r.queue) ELSE r

\* setdefault that reads self._mapping[key] directly: a stored key is not
\* moved
Mutant_setdefault_Peek(m, q, cap, key, default) ==
    IF key \in DOMAIN m THEN Return(m[key], m, q)
    ELSE LET s == __setitem__(m, q, cap, key, default)
         IN  IF s.exc = "none" THEN Return(default, s.mapping, s.queue) ELSE s

setdefault(m, q, cap, key, default) ==
    LET r == __getitem__(m, q, key)
    IN  IF r.exc = "KeyError"
        THEN LET s == __setitem__(r.mapping, r.queue, cap, key, default)
             IN  IF s.exc = "none"
                 THEN Return(default, s.mapping, s.queue)
                 ELSE s
        ELSE r

\* outcome of a method that returns a list and changes nothing
ReturnList(l) == [exc |-> "none", out |-> l]

RaiseList(e) == [exc |-> e, out |-> <<>>]

\* items without result.reverse()
Mutant_items_Unreversed(m, q) ==
    IF Range(q) \subseteq DOMAIN m
    THEN ReturnList([i \in 1..Len(q) |-> <<q[i], m[q[i]]>>])
    ELSE RaiseList("KeyError")

items(m, q) ==
    IF Range(q) \subseteq DOMAIN m
    THEN ReturnList(Reverse([i \in 1..Len(q) |-> <<q[i], m[q[i]]>>]))
    ELSE RaiseList("KeyError")

values(m, q) ==
    LET r == items(m, q)
    IN  IF r.exc = "none"
        THEN ReturnList([i \in 1..Len(r.out) |-> r.out[i][2]])
        ELSE r

__iter__(m, q) == ReturnList(Reverse(q))

keys(m, q) == __iter__(m, q)

__reversed__(m, q) == ReturnList(q)

\* ------------------------------------------------------ ghost: recency
\* The ranks of t restricted to the keys of S, closed up to 1..n.
Rerank(t, S) ==
    LET D == S \cap DOMAIN t
    IN  [k \in D |-> Cardinality({j \in D : t[j] <= t[k]})]

\* key has just been touched: it becomes the latest, the others keep their
\* order
Touch(t, key) ==
    LET r == Rerank(t, DOMAIN t \ {key})
    IN  [k \in DOMAIN r \cup {key} |->
            IF k = key THEN Cardinality(DOMAIN r) + 1 ELSE r[k]]

\* touch after a call that left the keys `stored` and touched `key` iff
\* `touched`
Recency(t, stored, touched, key) ==
    IF touched THEN Touch(Rerank(t, stored \ {key}), key)
    ELSE Rerank(t, stored)

\* written after the call c with outcome r: a set (or a setdefault of a key
\* that was not written) records its value, a delete and a clear undo, and so
\* does the eviction of a key by a set
Written(w, c, r) ==
    IF r.exc # "none" THEN w
    ELSE IF c.op = "clear" THEN EmptyDict
    ELSE IF c.op = "delitem" THEN Drop(w, c.key)
    ELSE IF \/ c.op = "setitem"
            \/ c.op = "setdefault" /\ c.key \notin DOMAIN w
    THEN LET kept == [k \in DOMAIN w \cap DOMAIN r.mapping |-> w[k]]
         IN  Store(kept, c.key, c.arg)
    ELSE w

Snapshot ==
    [capacity |-> capacity, mapping |-> _mapping, queue |-> _queue,
     touch |-> touch, written |-> written]

\* ------------------------------------------------- objects, references
ObjKeys == 1..MaxObjKey

\* the values stored where several instances are compared: two values that
\* differ
ObjArgs == {None, MaxVal}

\* the capacities of the first instance: one that evicts on the second key,
\* one that holds two keys
ObjCapacities == {1, 2}

\* the two instances: the one constructed first and the one made from it
Source == 1

Made == 2

\* an id not in use
Fresh(used) == CHOOSE i \in 1..(Cardinality(used) + 1) : i \notin used

NoState == [capacity |-> None, _mapping |-> 0, _queue |-> 0]

\* a returned sequence: an object of its own (ref = 0, contents val) or a
\* reference to a deque of the heap
NoResult == [ref |-> 0, val |-> <<>>]

\* an instance before any attribute is set (cls.__new__)
__new__ ==
    [capacity |-> None, _mapping |-> 0, _queue |-> 0, bound |-> 0,
     _wlock |-> 0]

\* binds _popleft / _pop / _remove / _append to the instance's deque and
\* gives the instance a new Lock
_postinit(c, lock) == [c EXCEPT !.bound = c._queue, !._wlock = lock]

\* the instance attributes after __init__(capacity), with d and q the new
\* dict and the new deque
__init__(cap, d, q, lock) ==
    _postinit([__new__ EXCEPT !.capacity = cap, !._mapping = d, !._queue = q],
              lock)

__getstate__(c) ==
    [capacity |-> c.capacity, _mapping |-> c._mapping, _queue |-> c._queue]

\* __setstate__ without self._postinit()
Mutant_setstate_NoPostinit(c, d, lock) ==
    [c EXCEPT !.capacity = d.capacity, !._mapping = d._mapping,
              !._queue = d._queue]

__setstate__(c, d, lock) ==
    _postinit([c EXCEPT !.capacity = d.capacity, !._mapping = d._mapping,
                        !._queue = d._queue],
              lock)

\* copy that binds the new instance to the dict of the old one
\* (rv._mapping = self._mapping)
Mutant_copy_SharesMapping(c, m, q, d, dq, lock) ==
    [cache |-> [__init__(c.capacity, d, dq, lock)
                    EXCEPT !._mapping = c._mapping],
     mapping |-> m,
     queue |-> q]

\* copy(): the new instance, and the contents of its dict d and its deque
\* dq after update / extend (m, q: the contents of self's dict and deque)
copy(c, m, q, d, dq, lock) ==
    [cache |-> __init__(c.capacity, d, dq, lock),
     mapping |-> [k \in DOMAIN m |-> m[k]],
     queue |-> q]

\* a guarded method called on instance c whose dict and deque hold m and q
Invoke(c, m, q, op, key, arg) ==
    IF c._wlock = 0 \/ c.bound # c._queue
    THEN Raise("AttributeError", m, q)
    ELSE CASE op = "getitem" -> __getitem__(m, q, key)
           [] op = "setitem" -> __setitem__(m, q, c.capacity, key, arg)
           [] op = "delitem" -> __delitem__(m, q, key)
           [] OTHER -> clear(m, q)

\* __reversed__ that iterates over the deque itself (iter(self._queue))
Mutant_Listing_LiveQueue(c, m, q, op) ==
    IF op = "reversed" THEN [ref |-> c._queue, val |-> <<>>]
    ELSE [ref |-> 0,
          val |-> CASE op = "items" -> items(m, q).out
                    [] op = "values" -> values(m, q).out
                    [] op = "keys" -> keys(m, q).out
                    [] OTHER -> __iter__(m, q).out]

\* what a listing method hands to the caller: a new list, or an iterator
\* over a new tuple, never the deque
Listing(c, m, q, op) ==
    [ref |-> 0,
     val |-> CASE op = "items" -> items(m, q).out
               [] op = "values" -> values(m, q).out
               [] op = "keys" -> keys(m, q).out
               [] op = "iter" -> __iter__(m, q).out
               [] OTHER -> __reversed__(m, q).out]

Methods == {"getitem", "setitem", "delitem", "clear"}

Listings == {"items", "values", "keys", "iter", "reversed"}

\* the objects some instance or the held state refers to
DictRefs(cs, st) ==
    ({cs[c]._mapping : c \in DOMAIN cs} \cup {st._mapping}) \ {0}

SeqRefs(cs, st) ==
    ({cs[c]._queue : c \in DOMAIN cs} \cup {st._queue}) \ {0}

LockRefs(cs) == {cs[c]._wlock : c \in DOMAIN cs} \ {0}

\* the heap h without the objects nothing refers to any more
Collect(h, refs) == [i \in DOMAIN h \cap refs |-> h[i]]

\* no object exists: the value of the object variables where a single
\* instance is modelled by capacity, _mapping and _queue
NoObjects ==
    /\ dicts = EmptyDict
    /\ seqs = EmptyDict
    /\ locks = EmptyDict
    /\ caches = EmptyDict
    /\ state = NoState
    /\ result = NoResult
    /\ self = 0
    /\ origin = "none"

\* ------------------------------------------------------------- threads
\* the calls made in all, by whichever thread
MaxCalls == 3

Threads == {1, 2}

\* the calls a thread makes
Guarded == {"getitem", "setitem", "delitem", "clear"}

Composite == {"get", "setdefault"}

Readers == {"items", "values", "keys", "copy"}

Unguarded == {"contains", "len"}

\* key in cache
__contains__(m, key) == key \in DOMAIN m

\* len(cache)
__len__(m) == Cardinality(DOMAIN m)

NoFrame == [op |-> "none", key |-> None, arg |-> None]

\* locals: the exception being propagated, rv (or the key popped by
\* _popleft), a list or deque read from self._queue, a list being built, a
\* dict read from self._mapping
NoLocal ==
    [exc |-> "none", rv |-> None, res |-> <<>>, acc |-> <<>>,
     m |-> EmptyDict]

NoExpect == [exc |-> "none", rv |-> None]

\* no thread exists: the value of the thread variables where calls are
\* modelled as single steps
NoThreads ==
    /\ wlock = 0
    /\ pc = [t \in Threads |-> "idle"]
    /\ frame = [t \in Threads |-> NoFrame]
    /\ local = [t \in Threads |-> NoLocal]
    /\ calls = 0
    /\ lin = [mapping |-> EmptyDict, queue |-> <<>>]
    /\ base = [mapping |-> EmptyDict, queue |-> <<>>]
    /\ expect = [t \in Threads |-> NoExpect]
    /\ seen = [t \in Threads |-> {}]

\* an acquire() that returns without waiting for the lock
Mutant_acquire_NoWait(holder) == TRUE

\* self._wlock.acquire(): returns when no thread holds the lock
acquire(holder) == holder = 0

\* a release() placed after the try block instead of in its finally clause:
\* thread t keeps the lock when the body raised e
Mutant_release_NotInFinally(t, e) == IF e = "none" THEN 0 ELSE t

\* finally: self._wlock.release(): the holder of the lock after thread t
\* leaves the try block, normally or with exception e
release(t, e) == 0

\* the positions between acquire() and release()
SectionPcs ==
    {"g1", "g2", "g3", "g4", "g5", "s1", "s2", "s3", "s4", "s5", "s6", "s7",
     "d1", "d2", "d3", "c1", "c2", "c3"}

\* an Entry that sends __contains__ and __len__ through the guarded lookup
Mutant_Entry_ContainsLocks(op) ==
    CASE op \in {"getitem", "get", "setdefault", "contains", "len"} -> "g0"
      [] op = "setitem" -> "s0"
      [] op = "delitem" -> "d0"
      [] op = "clear" -> "c0"
      [] op \in {"items", "values"} -> "i0"
      [] op = "keys" -> "k0"
      [] OTHER -> "cp0"

\* the first statement of each call
Entry(op) ==
    CASE op \in {"getitem", "get", "setdefault"} -> "g0"
      [] op = "setitem" -> "s0"
      [] op = "delitem" -> "d0"
      [] op = "clear" -> "c0"
      [] op \in {"items", "values"} -> "i0"
      [] op = "keys" -> "k0"
      [] op = "contains" -> "in0"
      [] op = "len" -> "len0"
      [] OTHER -> "cp0"

\* where a thread waits for the lock, and where it gives it back
AcquirePcs == {"g0", "s0", "d0", "c0"}

ReleasePcs == {"g5", "s7", "d3", "c3"}

\* the guarded method whose acquire() is at p, applied at once
Section(p, f, m, q, cap) ==
    CASE p = "g0" -> __getitem__(m, q, f.key)
      [] p = "s0" -> __setitem__(m, q, cap, f.key, f.arg)
      [] p = "d0" -> __delitem__(m, q, f.key)
      [] OTHER -> clear(m, q)

\* what a listing method returns for store m and queue q
ListOf(op, m, q) ==
    CASE op = "items" -> items(m, q).out
      [] op = "values" -> values(m, q).out
      [] OTHER -> keys(m, q).out

\* ------------------------------------------------------------- actions
Init ==
    /\ capacity \in Capacities
    /\ _mapping = EmptyDict
    /\ _queue = <<>>
    /\ touch = EmptyDict
    /\ written = EmptyDict
    /\ last = [op |-> "init", key |-> None, arg |-> None]
    /\ pre = [capacity |-> capacity, mapping |-> EmptyDict, queue |-> <<>>,
              touch |-> EmptyDict, written |-> EmptyDict]
    /\ exc = "none"
    /\ rv = None
    /\ out = <<>>
    /\ NoObjects
    /\ NoThreads

\* the fields and the result after a call of a method that returns a value
Apply(key, r, touched) ==
    /\ _mapping' = r.mapping
    /\ _queue' = r.queue
    /\ exc' = r.exc
    /\ rv' = r.rv
    /\ out' = <<>>
    /\ touch' = Recency(touch, DOMAIN r.mapping, touched, key)
    /\ written' = Written(written, last', r)
    /\ pre' = Snapshot
    /\ UNCHANGED <<capacity, objVars, thrVars>>

\* the result after a call of a method that returns a list
ApplyList(r) ==
    /\ exc' = r.exc
    /\ out' = r.out
    /\ rv' = None
    /\ pre' = Snapshot
    /\ UNCHANGED <<capacity, _mapping, _queue, touch, written, objVars,
                   thrVars>>

Call(op, key, arg) == [op |-> op, key |-> key, arg |-> arg]

\* cache[key]
GetItem ==
    \E key \in Keys :
        /\ last' = Call("getitem", key, None)
        /\ LET r == __getitem__(_mapping, _queue, key)
           IN  Apply(key, r, r.exc = "none")

\* cache[key] = value
SetItem ==
    \E key \in Keys, value \in Args :
        /\ last' = Call("setitem", key, value)
        /\ LET r == __setitem__(_mapping, _queue, capacity, key, value)
           IN  Apply(key, r, r.exc = "none")

\* del cache[key]
DelItem ==
    \E key \in Keys :
        /\ last' = Call("delitem", key, None)
        /\ Apply(key, __delitem__(_mapping, _queue, key), FALSE)

\* cache.get(key, default)
Get ==
    \E key \in Keys, default \in Args :
        /\ last' = Call("get", key, default)
        /\ LET r == get(_mapping, _queue, key, default)
           IN  Apply(key, r, r.exc = "none" /\ key \in DOMAIN _mapping)

\* cache.setdefault(key, default)
SetDefault ==
    \E key \in Keys, default \in Args :
        /\ last' = Call("setdefault", key, default)
        /\ LET r == setdefault(_mapping, _queue, capacity, key, default)
           IN  Apply(key, r, r.exc = "none")

\* cache.clear()
Clear ==
    /\ last' = Call("clear", None, None)
    /\ Apply(None, clear(_mapping, _queue), FALSE)

\* cache.items()
Items ==
    /\ last' = Call("items", None, None)
    /\ ApplyList(items(_mapping, _queue))

\* cache.values()
ValuesList ==
    /\ last' = Call("values", None, None)
    /\ ApplyList(values(_mapping, _queue))

\* cache.keys()
KeysList ==
    /\ last' = Call("keys", None, None)
    /\ ApplyList(keys(_mapping, _queue))

\* iter(cache)
Iter ==
    /\ last' = Call("iter", None, None)
    /\ ApplyList(__iter__(_mapping, _queue))

\* reversed(cache)
Reversed ==
    /\ last' = Call("reversed", None, None)
    /\ ApplyList(__reversed__(_mapping, _queue))

Next ==
    \/ GetItem
    \/ SetItem
    \/ DelItem
    \/ Get
    \/ SetDefault
    \/ Clear
    \/ Items
    \/ ValuesList
    \/ KeysList
    \/ Iter
    \/ Reversed

Spec == Init /\ [][Next]_vars

\* --------------------------------------------- actions on the object heap
ObjInit ==
    /\ \E cap \in ObjCapacities :
           caches = (Source :> __init__(cap, 1, 1, 1))
    /\ dicts = (1 :> EmptyDict)
    /\ seqs = (1 :> <<>>)
    /\ locks = (1 :> FALSE)
    /\ state = NoState
    /\ result = NoResult
    /\ self = 0
    /\ origin = "none"
    /\ last = Call("init", None, None)
    /\ exc = "none"
    /\ rv = None
    /\ capacity = 1
    /\ _mapping = EmptyDict
    /\ _queue = <<>>
    /\ touch = EmptyDict
    /\ written = EmptyDict
    /\ pre = [capacity |-> 1, mapping |-> EmptyDict, queue |-> <<>>,
              touch |-> EmptyDict, written |-> EmptyDict]
    /\ out = <<>>
    /\ NoThreads

\* the contents of an instance's dict and deque
Mapping(c) == dicts[caches[c]._mapping]

Queue(c) == seqs[caches[c]._queue]

\* The caller holds one thing at a time besides Source: the instance made
\* from it, a state, or a result.
HoldsNothing ==
    /\ Made \notin DOMAIN caches
    /\ state = NoState
    /\ result = NoResult

\* c[key], c[key] = arg, del c[key] or c.clear() on one of the instances
ObjCall ==
    \E c \in DOMAIN caches, op \in Methods, key \in ObjKeys,
       arg \in ObjArgs :
        /\ op \in {"getitem", "delitem"} => arg = None
        /\ op = "clear" => key = 1 /\ arg = None
        /\ last' = Call(op, IF op = "clear" THEN None ELSE key, arg)
        /\ self' = c
        /\ LET r == Invoke(caches[c], Mapping(c), Queue(c), op, key, arg)
           IN  /\ dicts' = [dicts EXCEPT ![caches[c]._mapping] = r.mapping]
               /\ seqs' = [seqs EXCEPT ![caches[c]._queue] = r.queue]
               /\ exc' = r.exc
               /\ rv' = r.rv
        /\ UNCHANGED <<seqVars, thrVars, locks, caches, origin, state, result>>

\* a listing method called on one of the instances; the caller keeps the
\* result
ObjList ==
    \E c \in DOMAIN caches, op \in Listings :
        /\ Made \notin DOMAIN caches
        /\ state = NoState
        /\ last' = Call(op, None, None)
        /\ self' = c
        /\ result' = Listing(caches[c], Mapping(c), Queue(c), op)
        /\ exc' = "none"
        /\ rv' = None
        /\ UNCHANGED <<seqVars, thrVars, dicts, seqs, locks, caches, origin,
                       state>>

\* Source.copy()
ObjCopy ==
    /\ HoldsNothing
    /\ last' = Call("copy", None, None)
    /\ origin' = "copy"
    /\ self' = Source
    /\ LET d == Fresh(DOMAIN dicts)
           q == Fresh(DOMAIN seqs)
           l == Fresh(DOMAIN locks)
           n == copy(caches[Source], Mapping(Source), Queue(Source), d, q, l)
       IN  /\ caches' = caches @@ (Made :> n.cache)
           /\ dicts' = [dicts @@ (d :> EmptyDict)
                            EXCEPT ![n.cache._mapping] = n.mapping]
           /\ seqs' = (q :> n.queue) @@ seqs
           /\ locks' = (l :> FALSE) @@ locks
    /\ exc' = "none"
    /\ rv' = None
    /\ UNCHANGED <<seqVars, thrVars, state, result>>

\* state = c.__getstate__()
ObjGetState ==
    \E c \in DOMAIN caches :
        /\ HoldsNothing
        /\ last' = Call("getstate", None, None)
        /\ self' = c
        /\ state' = __getstate__(caches[c])
        /\ exc' = "none"
        /\ rv' = None
        /\ UNCHANGED <<seqVars, thrVars, dicts, seqs, locks, caches, origin,
                       result>>

\* state = pickle.loads(pickle.dumps(state)): the same contents in objects
\* of their own
ObjSerialise ==
    /\ state # NoState
    /\ state._mapping = caches[Source]._mapping
    /\ last' = Call("serialise", None, None)
    /\ UNCHANGED self
    /\ LET d == Fresh(DOMAIN dicts)
           q == Fresh(DOMAIN seqs)
           st == [state EXCEPT !._mapping = d, !._queue = q]
       IN  /\ state' = st
           /\ dicts' = Collect((d :> dicts[state._mapping]) @@ dicts,
                               DictRefs(caches, st))
           /\ seqs' = Collect((q :> seqs[state._queue]) @@ seqs,
                              SeqRefs(caches, st))
    /\ exc' = "none"
    /\ rv' = None
    /\ UNCHANGED <<seqVars, thrVars, locks, caches, origin, result>>

\* Made = LRUCache.__new__(LRUCache, capacity); Made.__setstate__(state);
\* the caller does not keep the state
ObjSetState ==
    /\ Made \notin DOMAIN caches
    /\ state # NoState
    /\ last' = Call("setstate", None, None)
    /\ origin' = "setstate"
    /\ self' = Made
    /\ LET l == Fresh(DOMAIN locks)
           n == __setstate__(__new__, state, l)
       IN  /\ caches' = caches @@ (Made :> n)
           /\ locks' = IF n._wlock = 0 THEN locks ELSE (l :> FALSE) @@ locks
    /\ state' = NoState
    /\ exc' = "none"
    /\ rv' = None
    /\ UNCHANGED <<seqVars, thrVars, dicts, seqs, result>>

\* the caller changes the sequence it was handed (del result[0])
ObjMutateResult ==
    /\ IF result.ref = 0 THEN result.val # <<>> ELSE seqs[result.ref] # <<>>
    /\ last' = Call("mutate_result", None, None)
    /\ IF result.ref = 0
       THEN /\ result' = [result EXCEPT !.val = Tail(result.val)]
            /\ UNCHANGED seqs
       ELSE /\ seqs' = [seqs EXCEPT ![result.ref] = Tail(seqs[result.ref])]
            /\ UNCHANGED result
    /\ exc' = "none"
    /\ rv' = None
    /\ UNCHANGED <<seqVars, thrVars, dicts, locks, caches, origin, state, self>>

\* the caller changes the deque it finds in the state it was handed
\* (state["_queue"].clear())
ObjMutateState ==
    /\ state # NoState
    /\ seqs[state._queue] # <<>>
    /\ last' = Call("mutate_state", None, None)
    /\ seqs' = [seqs EXCEPT ![state._queue] = <<>>]
    /\ exc' = "none"
    /\ rv' = None
    /\ UNCHANGED <<seqVars, thrVars, dicts, locks, caches, origin, state,
                   result, self>>

\* the caller drops what it holds: the made instance, the state, the result
ObjDrop ==
    /\ Made \in DOMAIN caches \/ state # NoState \/ result # NoResult
    /\ last' = Call("drop", None, None)
    /\ origin' = "none"
    /\ self' = 0
    /\ LET cs == [c \in DOMAIN caches \ {Made} |-> caches[c]]
       IN  /\ caches' = cs
           /\ dicts' = Collect(dicts, DictRefs(cs, NoState))
           /\ seqs' = Collect(seqs, SeqRefs(cs, NoState))
           /\ locks' = Collect(locks, LockRefs(cs))
    /\ state' = NoState
    /\ result' = NoResult
    /\ exc' = "none"
    /\ rv' = None
    /\ UNCHANGED <<seqVars, thrVars>>

ObjNext ==
    \/ ObjCall
    \/ ObjList
    \/ ObjCopy
    \/ ObjGetState
    \/ ObjSerialise
    \/ ObjSetState
    \/ ObjMutateResult
    \/ ObjMutateState
    \/ ObjDrop

SpecObjects == ObjInit /\ [][ObjNext]_vars

\* ------------------------------------- threads calling into one instance
\* Each statement of a method that reads or writes self._mapping or
\* self._queue is one step of the calling thread; the interpreter runs one
\* such statement at a time.
ThrInit ==
    /\ capacity \in ObjCapacities
    /\ _mapping = EmptyDict
    /\ _queue = <<>>
    /\ touch = EmptyDict
    /\ written = EmptyDict
    /\ last = Call("init", None, None)
    /\ pre = [capacity |-> 1, mapping |-> EmptyDict, queue |-> <<>>,
              touch |-> EmptyDict, written |-> EmptyDict]
    /\ exc = "none"
    /\ rv = None
    /\ out = <<>>
    /\ NoObjects
    /\ NoThreads

\* what no step of a thread changes: a thread's call and its result are in
\* frame and local
fixedVars ==
    <<capacity, touch, written, pre, out, callVars, objVars>>

\* thread t goes to statement p with locals l
Goto(t, p, l) ==
    /\ pc' = [pc EXCEPT ![t] = p]
    /\ local' = [local EXCEPT ![t] = l]

\* thread t fails with e: control goes to p (the finally clause of a
\* guarded section, or the end of the call)
Fail(t, p, e) == Goto(t, p, [NoLocal EXCEPT !.exc = e])

\* the call of thread t returns or raises
Finish(t) ==
    /\ pc' = [pc EXCEPT ![t] = "idle"]
    /\ frame' = [frame EXCEPT ![t] = NoFrame]
    /\ local' = [local EXCEPT ![t] = NoLocal]
    /\ expect' = [expect EXCEPT ![t] = NoExpect]
    /\ seen' = [seen EXCEPT ![t] = {}]

\* thread t enters the method op with the arguments key and arg
StartCall(t, op, key, arg) ==
    /\ op \in {"getitem", "delitem", "contains"} => arg = None
    /\ op \in Readers \cup {"clear", "len"} => key = 1 /\ arg = None
    /\ frame' = [frame EXCEPT
                     ![t] = Call(op,
                                 IF op \in Readers \cup {"clear", "len"}
                                 THEN None ELSE key, arg)]
    /\ calls' = calls + 1
    /\ pc' = [pc EXCEPT ![t] = Entry(op)]
    /\ seen' = [seen EXCEPT
                    ![t] = IF op \in Readers THEN {base, lin} ELSE {}]
    /\ UNCHANGED <<fixedVars, _mapping, _queue, wlock, local, lin, base,
                   expect>>

\* a thread calls a method
ThrCall ==
    \E t \in Threads,
       op \in Guarded \cup Composite \cup Readers \cup Unguarded,
       key \in ObjKeys, arg \in ObjArgs :
        /\ pc[t] = "idle"
        /\ calls < MaxCalls
        /\ StartCall(t, op, key, arg)

\* a thread calls a method that acquires the lock, itself or through
\* self[key]
ThrCallGuarded ==
    \E t \in Threads, op \in Guarded \cup Composite,
       key \in ObjKeys, arg \in ObjArgs :
        /\ pc[t] = "idle"
        /\ calls < MaxCalls
        /\ StartCall(t, op, key, arg)

\* self._wlock.acquire()
Acquire ==
    \E t \in Threads :
        /\ pc[t] \in AcquirePcs
        /\ acquire(wlock)
        /\ wlock' = t
        /\ pc' = [pc EXCEPT
                      ![t] = CASE pc[t] = "g0" -> "g1"
                               [] pc[t] = "s0" -> "s1"
                               [] pc[t] = "d0" -> "d1"
                               [] OTHER -> "c1"]
        /\ LET r == Section(pc[t], frame[t], lin.mapping, lin.queue,
                            capacity)
           IN  /\ lin' = [mapping |-> r.mapping, queue |-> r.queue]
               /\ expect' = [expect EXCEPT
                                 ![t] = [exc |-> r.exc, rv |-> r.rv]]
        /\ seen' = [u \in Threads |->
                        IF seen[u] = {} THEN {} ELSE seen[u] \cup {lin'}]
        /\ UNCHANGED <<fixedVars, _mapping, _queue, frame, local,
                       calls, base>>

\* a statement inside a guarded section changes the store, the queue and
\* the thread's position and locals only
Inside ==
    UNCHANGED <<fixedVars, wlock, frame, calls, lin, base, expect, seen>>

\* __getitem__: rv = self._mapping[key]
G1 ==
    \E t \in Threads :
        /\ pc[t] = "g1"
        /\ IF frame[t].key \in DOMAIN _mapping
           THEN Goto(t, "g2", [NoLocal EXCEPT !.rv = _mapping[frame[t].key]])
           ELSE Fail(t, "g5", "KeyError")
        /\ UNCHANGED <<_mapping, _queue>>
        /\ Inside

\* __getitem__: if self._queue[-1] != key:
G2 ==
    \E t \in Threads :
        /\ pc[t] = "g2"
        /\ IF _queue = <<>>
           THEN Fail(t, "g5", "IndexError")
           ELSE Goto(t, IF _queue[Len(_queue)] # frame[t].key
                        THEN "g3" ELSE "g5", local[t])
        /\ UNCHANGED <<_mapping, _queue>>
        /\ Inside

\* __getitem__: try: self._remove(key) except ValueError: pass
G3 ==
    \E t \in Threads :
        /\ pc[t] = "g3"
        /\ _queue' = IF frame[t].key \in Range(_queue)
                     THEN _remove(_queue, frame[t].key) ELSE _queue
        /\ Goto(t, "g4", local[t])
        /\ UNCHANGED _mapping
        /\ Inside

\* __getitem__: self._append(key)
G4 ==
    \E t \in Threads :
        /\ pc[t] = "g4"
        /\ _queue' = _append(_queue, frame[t].key)
        /\ Goto(t, "g5", local[t])
        /\ UNCHANGED _mapping
        /\ Inside

\* __setitem__: if key in self._mapping: ... elif len(self._mapping) ==
\* self.capacity: ...
S1 ==
    \E t \in Threads :
        /\ pc[t] = "s1"
        /\ Goto(t, IF frame[t].key \in DOMAIN _mapping THEN "s2"
                   ELSE IF Cardinality(DOMAIN _mapping) = capacity THEN "s3"
                   ELSE "s5", local[t])
        /\ UNCHANGED <<_mapping, _queue>>
        /\ Inside

\* __setitem__: self._remove(key)
S2 ==
    \E t \in Threads :
        /\ pc[t] = "s2"
        /\ IF frame[t].key \in Range(_queue)
           THEN /\ _queue' = _remove(_queue, frame[t].key)
                /\ Goto(t, "s5", local[t])
           ELSE /\ UNCHANGED _queue
                /\ Fail(t, "s7", "ValueError")
        /\ UNCHANGED _mapping
        /\ Inside

\* __setitem__: self._popleft()
S3 ==
    \E t \in Threads :
        /\ pc[t] = "s3"
        /\ IF _queue # <<>>
           THEN /\ _queue' = Tail(_queue)
                /\ Goto(t, "s4", [NoLocal EXCEPT !.rv = Head(_queue)])
           ELSE /\ UNCHANGED _queue
                /\ Fail(t, "s7", "IndexError")
        /\ UNCHANGED _mapping
        /\ Inside

\* __setitem__: del self._mapping[<the key popped>]
S4 ==
    \E t \in Threads :
        /\ pc[t] = "s4"
        /\ IF local[t].rv \in DOMAIN _mapping
           THEN /\ _mapping' = Drop(_mapping, local[t].rv)
                /\ Goto(t, "s5", NoLocal)
           ELSE /\ UNCHANGED _mapping
                /\ Fail(t, "s7", "KeyError")
        /\ UNCHANGED _queue
        /\ Inside

\* __setitem__: self._append(key)
S5 ==
    \E t \in Threads :
        /\ pc[t] = "s5"
        /\ _queue' = _append(_queue, frame[t].key)
        /\ Goto(t, "s6", local[t])
        /\ UNCHANGED _mapping
        /\ Inside

\* __setitem__: self._mapping[key] = value
S6 ==
    \E t \in Threads :
        /\ pc[t] = "s6"
        /\ _mapping' = Store(_mapping, frame[t].key, frame[t].arg)
        /\ Goto(t, "s7", local[t])
        /\ UNCHANGED _queue
        /\ Inside

\* __delitem__: del self._mapping[key]
D1 ==
    \E t \in Threads :
        /\ pc[t] = "d1"
        /\ IF frame[t].key \in DOMAIN _mapping
           THEN /\ _mapping' = Drop(_mapping, frame[t].key)
                /\ Goto(t, "d2", local[t])
           ELSE /\ UNCHANGED _mapping
                /\ Fail(t, "d3", "KeyError")
        /\ UNCHANGED _queue
        /\ Inside

\* __delitem__: try: self._remove(key) except ValueError: pass
D2 ==
    \E t \in Threads :
        /\ pc[t] = "d2"
        /\ _queue' = IF frame[t].key \in Range(_queue)
                     THEN _remove(_queue, frame[t].key) ELSE _queue
        /\ Goto(t, "d3", local[t])
        /\ UNCHANGED _mapping
        /\ Inside

\* clear: self._mapping.clear()
C1 ==
    \E t \in Threads :
        /\ pc[t] = "c1"
        /\ _mapping' = EmptyDict
        /\ Goto(t, "c2", local[t])
        /\ UNCHANGED _queue
        /\ Inside

\* clear: self._queue.clear()
C2 ==
    \E t \in Threads :
        /\ pc[t] = "c2"
        /\ _queue' = <<>>
        /\ Goto(t, "c3", local[t])
        /\ UNCHANGED _mapping
        /\ Inside

\* finally: self._wlock.release(), and the guarded method returns or
\* raises; get() turns KeyError into default; setdefault() turns
\* KeyError into self[key] = default and then returns default
Release ==
    \E t \in Threads :
        /\ pc[t] \in ReleasePcs
        /\ wlock' = release(t, local[t].exc)
        /\ base' = lin
        /\ IF frame[t].op = "setdefault" /\ pc[t] = "g5"
              /\ local[t].exc = "KeyError"
           THEN /\ Goto(t, "s0", NoLocal)
                /\ expect' = [expect EXCEPT ![t] = NoExpect]
                /\ UNCHANGED <<frame, seen>>
           ELSE Finish(t)
        /\ UNCHANGED <<fixedVars, _mapping, _queue, calls, lin>>

\* a statement of an unguarded method changes the thread's position and
\* locals only
Outside ==
    UNCHANGED <<fixedVars, _mapping, _queue, wlock, frame, calls,
                lin, base, expect, seen>>

\* items: list(self._queue)
I0 ==
    \E t \in Threads :
        /\ pc[t] = "i0"
        /\ Goto(t, IF _queue = <<>> THEN "i2" ELSE "i1",
                [NoLocal EXCEPT !.res = _queue])
        /\ Outside

\* items: (key, self._mapping[key]) for the next key of the list
I1 ==
    \E t \in Threads :
        /\ pc[t] = "i1"
        /\ LET key == local[t].res[Len(local[t].acc) + 1]
           IN  IF key \in DOMAIN _mapping
               THEN Goto(t, IF Len(local[t].acc) + 1 = Len(local[t].res)
                            THEN "i2" ELSE "i1",
                         [local[t] EXCEPT
                              !.acc = Append(@, <<key, _mapping[key]>>)])
               ELSE Fail(t, "i2", "KeyError")
        /\ Outside

\* items: result.reverse(); return result (values: [x[1] for x in ...])
IReturn ==
    \E t \in Threads :
        /\ pc[t] = "i2"
        /\ Finish(t)
        /\ UNCHANGED <<fixedVars, _mapping, _queue, wlock, calls, lin, base>>

\* keys: list(self), that is list(reversed(tuple(self._queue)))
K0 ==
    \E t \in Threads :
        /\ pc[t] = "k0"
        /\ Goto(t, "k1", [NoLocal EXCEPT !.res = _queue])
        /\ Outside

KReturn ==
    \E t \in Threads :
        /\ pc[t] = "k1"
        /\ Finish(t)
        /\ UNCHANGED <<fixedVars, _mapping, _queue, wlock, calls, lin, base>>

\* copy: rv = self.__class__(self.capacity);
\* rv._mapping.update(self._mapping)
Cp0 ==
    \E t \in Threads :
        /\ pc[t] = "cp0"
        /\ Goto(t, "cp1", [NoLocal EXCEPT !.m = _mapping])
        /\ Outside

\* copy: rv._queue.extend(self._queue)
Cp1 ==
    \E t \in Threads :
        /\ pc[t] = "cp1"
        /\ Goto(t, "cp2", [local[t] EXCEPT !.res = _queue])
        /\ Outside

\* copy: return rv
CpReturn ==
    \E t \in Threads :
        /\ pc[t] = "cp2"
        /\ Finish(t)
        /\ UNCHANGED <<fixedVars, _mapping, _queue, wlock, calls, lin, base>>

\* __contains__: key in self._mapping
In0 ==
    \E t \in Threads :
        /\ pc[t] = "in0"
        /\ Goto(t, "u1",
                [NoLocal EXCEPT !.rv = __contains__(_mapping, frame[t].key)])
        /\ Outside

\* __len__: len(self._mapping)
Len0 ==
    \E t \in Threads :
        /\ pc[t] = "len0"
        /\ Goto(t, "u1", [NoLocal EXCEPT !.rv = __len__(_mapping)])
        /\ Outside

\* __contains__ / __len__: return
UReturn ==
    \E t \in Threads :
        /\ pc[t] = "u1"
        /\ Finish(t)
        /\ UNCHANGED <<fixedVars, _mapping, _queue, wlock, calls, lin, base>>

\* what the listing call of thread t returns: items reverses the list it
\* built, values takes the second component of each item, keys reverses the
\* tuple it read
Returned(t) ==
    LET result_ == Reverse(local[t].acc)
    IN  CASE frame[t].op = "items" -> result_
          [] frame[t].op = "values" ->
                 [i \in 1..Len(result_) |-> result_[i][2]]
          [] OTHER -> Reverse(local[t].res)

\* a thread in a guarded method executes its next statement
GuardedStep ==
    \/ Acquire
    \/ G1
    \/ G2
    \/ G3
    \/ G4
    \/ S1
    \/ S2
    \/ S3
    \/ S4
    \/ S5
    \/ S6
    \/ D1
    \/ D2
    \/ C1
    \/ C2
    \/ Release

\* a thread in a call executes its next statement
ThrStep ==
    \/ GuardedStep
    \/ I0
    \/ I1
    \/ IReturn
    \/ K0
    \/ KReturn
    \/ Cp0
    \/ Cp1
    \/ CpReturn
    \/ In0
    \/ Len0
    \/ UReturn

ThrNext ==
    \/ ThrCall
    \/ ThrStep

SpecThreads == ThrInit /\ [][ThrNext]_vars

\* Threads calling the methods that acquire the lock.  The interpreter keeps
\* running threads: as long as some thread can execute a statement, some
\* thread does.  Nothing obliges a thread to start a call.
GuardedNext ==
    \/ ThrCallGuarded
    \/ GuardedStep

SpecGuardedFair ==
    ThrInit /\ [][GuardedNext]_vars /\ WF_vars(GuardedStep)

\* ------------------------------------------------------------ properties
Size == Cardinality(DOMAIN _mapping)

PreSize == Cardinality(DOMAIN pre.mapping)

NoDuplicates(q) == \A i, j \in 1..Len(q) : q[i] = q[j] => i = j

\* the last and the first element of a sequence (None when it is empty)
Back(q) == IF q = <<>> THEN None ELSE q[Len(q)]

Front(q) == IF q = <<>> THEN None ELSE q[1]

\* q without the occurrences of key: the relative order of the other keys
Others(q, key) ==
    LET F[i \in 0..Len(q)] ==
            IF i = 0 THEN <<>>
            ELSE IF q[i] = key THEN F[i - 1] ELSE Append(F[i - 1], q[i])
    IN  F[Len(q)]

\* every key of S has in _mapping the value it had when the call started
SameValues(S) ==
    \A k \in S : /\ k \in DOMAIN _mapping
                 /\ k \in DOMAIN pre.mapping
                 /\ _mapping[k] = pre.mapping[k]

WasPresent == last.key \in DOMAIN pre.mapping

Unchanged == _mapping = pre.mapping /\ _queue = pre.queue

\* C1: with a positive capacity, after every completed call the queue lists
\* exactly the keys of the store, each once.
C1_QueueListsStore ==
    capacity > 0 =>
        /\ Range(_queue) = DOMAIN _mapping
        /\ Len(_queue) = Size
        /\ NoDuplicates(_queue)

C1_Witness ==
    /\ capacity > 0
    /\ last.op = "delitem"
    /\ exc = "none"
    /\ PreSize = 2
    /\ Len(_queue) = 1

\* C2: with a positive capacity the number of stored entries never exceeds
\* the capacity, and no call changes the capacity.
C2_SizeWithinCapacity ==
    /\ capacity > 0 => Size <= capacity
    /\ capacity = pre.capacity

C2_Witness ==
    /\ capacity > 0
    /\ last.op = "setdefault"
    /\ ~WasPresent
    /\ PreSize = capacity
    /\ Size = capacity

\* C3: a set of an absent key into a full cache removes the key that was at
\* the front of the queue from store and queue, puts the new key at the back
\* with the given value, leaves the size at capacity and keeps the value and
\* the relative order of every other entry.
C3_SetEvictsFront ==
    (capacity > 0 /\ last.op = "setitem" /\ ~WasPresent /\ PreSize = capacity)
    => /\ exc = "none"
       /\ Front(pre.queue) \notin DOMAIN _mapping
       /\ Front(pre.queue) \notin Range(_queue)
       /\ Back(_queue) = last.key
       /\ last.key \in DOMAIN _mapping
       /\ _mapping[last.key] = last.arg
       /\ Size = capacity
       /\ DOMAIN _mapping =
              (DOMAIN pre.mapping \ {Front(pre.queue)}) \cup {last.key}
       /\ SameValues(DOMAIN pre.mapping \ {Front(pre.queue)})
       /\ Others(_queue, last.key) = Others(pre.queue, Front(pre.queue))

C3_Witness ==
    /\ capacity = 2
    /\ last.op = "setitem"
    /\ ~WasPresent
    /\ PreSize = capacity
    /\ Front(pre.queue) \notin DOMAIN _mapping
    /\ Back(_queue) = last.key

\* a call that touches a key: a get or a set that succeeded on a stored key
Touched ==
    /\ last.op \in {"getitem", "get", "setitem", "setdefault"}
    /\ exc = "none"
    /\ last.key \in DOMAIN _mapping

\* C4: after a successful get (or get-with-default hit) of k or a set of an
\* existing k, k is the last key of the queue and the other keys keep their
\* relative order; and the last key of the queue stays last, while it is
\* stored, across every call that does not touch a different key.
C4_TouchedKeyIsLast ==
    /\ (last.op \in {"getitem", "get", "setitem"} /\ WasPresent)
       => /\ exc = "none"
          /\ Back(_queue) = last.key
          /\ Others(_queue, last.key) = Others(pre.queue, last.key)
    /\ (/\ pre.queue # <<>>
        /\ Back(pre.queue) \in DOMAIN _mapping
        /\ ~(Touched /\ last.key # Back(pre.queue)))
       => Back(_queue) = Back(pre.queue)

C4_Witness ==
    /\ last.op = "getitem"
    /\ exc = "none"
    /\ Len(pre.queue) >= 2
    /\ Front(pre.queue) = last.key
    /\ Back(_queue) = last.key

\* C5: the queue lists the stored keys in increasing order of their latest
\* touch, and the key an eviction removes is the least recently touched one.
C5_QueueIsRecencyOrder ==
    /\ DOMAIN touch = DOMAIN _mapping
    /\ Len(_queue) = Cardinality(DOMAIN touch)
    /\ \A i \in 1..Len(_queue) :
           _queue[i] \in DOMAIN touch /\ touch[_queue[i]] = i
    /\ (last.op \in {"setitem", "setdefault"} /\ ~WasPresent)
       => \A k \in DOMAIN pre.mapping \ DOMAIN _mapping :
              pre.touch[k] = 1 /\ k = Front(pre.queue)

C5_Witness ==
    /\ last.op = "setitem"
    /\ WasPresent
    /\ Len(pre.queue) >= 2
    /\ Front(pre.queue) = last.key
    /\ touch[last.key] = 2

\* C6: a stored key disappears only by its own delete, by clear, or by a set
\* or setdefault of a new key into a full cache, which removes exactly the
\* front key of the queue; get, get-with-default and a set of a stored key
\* remove nothing.
C6_RemovalOnlyByDeleteClearEvict ==
    \A k \in DOMAIN pre.mapping \ DOMAIN _mapping :
        \/ last.op = "delitem" /\ last.key = k
        \/ last.op = "clear"
        \/ /\ last.op \in {"setitem", "setdefault"}
           /\ ~WasPresent
           /\ PreSize = capacity
           /\ k = Front(pre.queue)
           /\ DOMAIN pre.mapping \ DOMAIN _mapping = {k}

C6_Witness ==
    /\ last.op = "setitem"
    /\ WasPresent
    /\ capacity = 2
    /\ PreSize = capacity
    /\ Front(pre.queue) = last.key
    /\ DOMAIN _mapping = DOMAIN pre.mapping

\* C7: a get or a delete of an absent key raises KeyError and leaves store,
\* queue and capacity as they were.
C7_AbsentKeyRaisesAndKeepsState ==
    (last.op \in {"getitem", "delitem"} /\ ~WasPresent)
    => /\ exc = "KeyError"
       /\ Unchanged
       /\ capacity = pre.capacity

C7_Witness ==
    /\ last.op = "getitem"
    /\ ~WasPresent
    /\ exc = "KeyError"
    /\ Len(_queue) >= 2

\* C8: get-with-default never raises; for an absent key it returns the
\* default, inserts nothing and leaves store and queue as they were; for a
\* stored key it returns the stored value.
C8_GetWithDefaultNeverFails ==
    last.op = "get"
    => /\ exc = "none"
       /\ ~WasPresent => /\ rv = last.arg
                         /\ last.key \notin DOMAIN _mapping
                         /\ Unchanged
       /\ WasPresent => rv = pre.mapping[last.key] /\ _mapping = pre.mapping

C8_Witness ==
    /\ last.op = "get"
    /\ ~WasPresent
    /\ last.arg = 1
    /\ rv = 1
    /\ Len(_queue) >= 1

C10_ListingOrder ==
    LET n == Len(_queue)
    IN  /\ last.op \in {"items", "keys", "values", "iter", "reversed"}
           => exc = "none" /\ Len(out) = n /\ Unchanged
        /\ last.op = "items"
           => \A i \in 1..n :
                  out[i] = <<_queue[n + 1 - i], _mapping[_queue[n + 1 - i]]>>
        /\ last.op \in {"keys", "iter"}
           => \A i \in 1..n : out[i] = _queue[n + 1 - i]
        /\ last.op = "values"
           => \A i \in 1..n : out[i] = _mapping[_queue[n + 1 - i]]
        /\ last.op = "reversed"
           => \A i \in 1..n : out[i] = _queue[i]

C10_Witness ==
    /\ last.op = "items"
    /\ Len(out) = 2
    /\ out[1][1] = Back(_queue)
    /\ out[2][1] = Front(_queue)
    /\ out[1][2] # out[2][2]

\* C11: a get of k returns the value of the latest set of k (by set or by an
\* inserting setdefault) that no delete of k, clear or eviction of k has
\* undone since, and fails exactly when there is none; so a get that follows
\* a set of a stored key returns the new value.
C11_GetReturnsLastSet ==
    /\ last.op = "getitem"
       => IF last.key \in DOMAIN pre.written
          THEN exc = "none" /\ rv = pre.written[last.key]
          ELSE exc = "KeyError"
    /\ (last.op = "setitem" /\ exc = "none")
       => /\ last.key \in DOMAIN written
          /\ written[last.key] = last.arg
          /\ __getitem__(_mapping, _queue, last.key).rv = last.arg
    /\ DOMAIN written = DOMAIN _mapping

C11_Witness ==
    /\ last.op = "getitem"
    /\ exc = "none"
    /\ rv = 1
    /\ Len(_queue) = 2
    /\ \E k \in DOMAIN _mapping : _mapping[k] = None

\* C12: a delete of a stored key removes that key alone from store and
\* queue, keeps the value and the relative order of every other entry and
\* lowers the size by one; a second delete of the key then raises KeyError.
C12_DeleteRemovesExactlyKey ==
    (last.op = "delitem" /\ WasPresent)
    => /\ exc = "none"
       /\ last.key \notin DOMAIN _mapping
       /\ last.key \notin Range(_queue)
       /\ DOMAIN _mapping = DOMAIN pre.mapping \ {last.key}
       /\ SameValues(DOMAIN pre.mapping \ {last.key})
       /\ _queue = Others(pre.queue, last.key)
       /\ Size = PreSize - 1
       /\ __delitem__(_mapping, _queue, last.key).exc = "KeyError"
       /\ __delitem__(_mapping, _queue, last.key).mapping = _mapping

C12_Witness ==
    /\ last.op = "delitem"
    /\ WasPresent
    /\ exc = "none"
    /\ Len(pre.queue) = 3
    /\ pre.queue[2] = last.key

\* C16 as stated: a cache with capacity 0 or a negative capacity does not
\* exist: its construction raised InvalidCapacity (and so no call completed
\* on it).
C16_NonPositiveCapacityRejected ==
    capacity <= 0 => (last.op = "init" /\ exc = "InvalidCapacity")

\* ------------------------------------------- properties of the object heap
\* the contents of instance c: capacity, store, queue
Contents(c) ==
    [capacity |-> caches[c].capacity, mapping |-> Mapping(c),
     queue |-> Queue(c)]

\* the sequence the caller holds
Held == IF result.ref = 0 THEN result.val ELSE seqs[result.ref]

\* the step is a guarded method called on instance c
CallOn(c) == last'.op \in Methods /\ self' = c

\* C13: copy() gives an instance with the capacity, the contents and the
\* queue order of the source, in objects of its own; afterwards a get, set,
\* delete or clear on one of the two leaves the store and the queue of the
\* other as they were.
C13_CopyIsEqualAndIndependent ==
    /\ [](last.op = "copy"
          => /\ Made \in DOMAIN caches
             /\ Contents(Made) = Contents(Source)
             /\ caches[Made].bound = caches[Made]._queue)
    /\ [][\A c \in DOMAIN caches, o \in DOMAIN caches :
              (origin = "copy" /\ CallOn(c) /\ o # c)
              => /\ o \in DOMAIN caches'
                 /\ Contents(o)' = Contents(o)]_vars

C13_Witness ==
    /\ origin = "copy"
    /\ last.op = "setitem"
    /\ self = Source
    /\ exc = "none"
    /\ Len(Queue(Made)) = 2
    /\ Queue(Source) # Queue(Made)
    /\ DOMAIN Mapping(Source) = DOMAIN Mapping(Made)
    /\ Mapping(Source) # Mapping(Made)

\* what the held state refers to: capacity, store, queue
StateContents ==
    [capacity |-> state.capacity, mapping |-> dicts[state._mapping],
     queue |-> seqs[state._queue]]

\* the held state refers to objects of some instance
StateIsLive ==
    \E c \in DOMAIN caches :
        \/ state._mapping = caches[c]._mapping
        \/ state._queue = caches[c]._queue

\* the outcome of the guarded method of the call c on store m and queue q of
\* capacity cap
Outcome(c, m, q, cap) ==
    CASE c.op = "getitem" -> __getitem__(m, q, c.key)
      [] c.op = "setitem" -> __setitem__(m, q, cap, c.key, c.arg)
      [] c.op = "delitem" -> __delitem__(m, q, c.key)
      [] OTHER -> clear(m, q)

\* C14: the state captured from an instance holds its capacity, store and
\* queue and no lock; serialising keeps them; the instance reconstructed from
\* the state has that capacity, store and queue order, queue methods bound
\* to its own queue and a new, free lock; and every guarded method called on
\* it afterwards has the outcome the method has on that store and queue.
C14_StateRoundTrip ==
    /\ [](last.op = "getstate"
          => /\ DOMAIN state = {"capacity", "_mapping", "_queue"}
             /\ StateContents = Contents(self))
    /\ [][last'.op = "serialise" => StateContents' = StateContents]_vars
    /\ [][last'.op = "setstate"
          => /\ Made \in DOMAIN caches'
             /\ Contents(Made)' = StateContents
             /\ caches'[Made].bound = caches'[Made]._queue
             /\ caches'[Made]._wlock \notin DOMAIN locks \cup {0}
             /\ caches'[Made]._wlock \in DOMAIN locks'
             /\ ~locks'[caches'[Made]._wlock]]_vars
    /\ [][(origin = "setstate" /\ CallOn(Made))
          => LET r == Outcome(last', Mapping(Made), Queue(Made),
                              caches[Made].capacity)
             IN  /\ Mapping(Made)' = r.mapping
                 /\ Queue(Made)' = r.queue
                 /\ exc' = r.exc
                 /\ rv' = r.rv]_vars

C14_Witness ==
    /\ origin = "setstate"
    /\ last.op = "setitem"
    /\ self = Made
    /\ exc = "none"
    /\ caches[Made].capacity = 1
    /\ caches[Made]._mapping # caches[Source]._mapping
    /\ Queue(Made) = <<last.key>>
    /\ Queue(Source) # <<>>
    /\ Queue(Source) # Queue(Made)

\* C15 as stated: nothing a caller is handed refers to the store or the
\* queue: a guarded method called on an instance changes neither a sequence
\* returned earlier nor a state captured earlier, and a caller changing what
\* it was handed changes no instance.
C15_NothingExposed ==
    [][/\ last'.op \in Methods
          => /\ result # NoResult => Held' = Held
             /\ state # NoState => StateContents' = StateContents
       /\ last'.op \in {"mutate_result", "mutate_state"}
          => \A c \in DOMAIN caches : Contents(c)' = Contents(c)]_vars

\* C15 amended: the sequences returned by items, keys, values and iteration
\* are objects of their own (a later call does not change them, changing
\* them changes no instance); the state returned by __getstate__ refers to
\* the instance's own dict and deque, and is independent of the instance
\* only once it has been serialised.
C15_ListingsOwnStateShared ==
    /\ [](/\ result.ref = 0
          /\ last.op = "getstate"
             => /\ state._mapping = caches[self]._mapping
                /\ state._queue = caches[self]._queue)
    /\ [][/\ last'.op \in Methods
             => /\ result # NoResult => Held' = Held
                /\ (state # NoState /\ ~StateIsLive)
                   => StateContents' = StateContents
          /\ (\/ last'.op = "mutate_result"
              \/ last'.op = "mutate_state" /\ ~StateIsLive)
             => \A c \in DOMAIN caches : Contents(c)' = Contents(c)]_vars

C15_Witness ==
    /\ last.op = "clear"
    /\ self = Source
    /\ Queue(Source) = <<>>
    /\ result.ref = 0
    /\ Len(result.val) = 2
    /\ Held = result.val

\* C17: the guarded sections of getitem, setitem, delitem and clear are
\* linearizable: applied one at a time in the order in which the threads
\* enter them (lin), they give what every thread returns or raises and the
\* store and queue left when the lock is released; and whenever the lock
\* is free the queue lists exactly the stored keys, without duplicates, and
\* the size is within the capacity.
C17_GuardedSectionsLinearizable ==
    /\ \A t \in Threads :
           pc[t] \in ReleasePcs
           => /\ local[t].exc = expect[t].exc
              /\ local[t].rv = expect[t].rv
              /\ _mapping = lin.mapping
              /\ _queue = lin.queue
    /\ wlock = 0
       => /\ _mapping = lin.mapping
          /\ _queue = lin.queue
          /\ Range(_queue) = DOMAIN _mapping
          /\ NoDuplicates(_queue)
          /\ Cardinality(DOMAIN _mapping) <= capacity

C17_Witness ==
    \E t, u \in Threads :
        /\ t # u
        /\ wlock = t
        /\ frame[t].op = "getitem"
        /\ pc[t] = "g5"
        /\ local[t].exc = "none"
        /\ local[t].rv = MaxVal
        /\ frame[u].op = "delitem"
        /\ frame[u].key = frame[t].key
        /\ pc[u] = "d0"

\* C18: setdefault is atomic: when it comes to insert the key it found
\* absent, no other thread has stored that key in the meantime.
C18_SetdefaultAtomic ==
    [][\A t \in Threads :
           (frame[t].op = "setdefault" /\ pc[t] = "s0" /\ pc'[t] = "s1")
           => frame[t].key \notin DOMAIN _mapping]_vars

\* C19: items(), values() and keys() never fail, and what they return is
\* the listing of one store and queue the cache had between guarded
\* sections while the call ran.
C19_ListingsReadOneState ==
    \A t \in Threads :
        pc[t] \in {"i2", "k1"}
        => /\ local[t].exc = "none"
           /\ \E s \in seen[t] :
                  Returned(t) = ListOf(frame[t].op, s.mapping, s.queue)

\* C20: the store and the queue of a copy are together one store and queue
\* the source had between guarded sections while copy() ran, so the copy's
\* queue lists exactly the copy's stored keys, without duplicates, and its
\* size is within the capacity.
C20_CopyReadsOneState ==
    \A t \in Threads :
        pc[t] = "cp2"
        => /\ [mapping |-> local[t].m, queue |-> local[t].res] \in seen[t]
           /\ Range(local[t].res) = DOMAIN local[t].m
           /\ NoDuplicates(local[t].res)
           /\ Cardinality(DOMAIN local[t].m) <= capacity

\* C21: at most one thread is between acquire() and release(), and it is
\* the holder of the lock; a thread that has left a guarded method, by
\* return or by exception, does not hold the lock, so the lock is free when
\* no call is in progress; and every call that was started returns.
C21_LockReleasedAndCallsReturn ==
    /\ [](\A t, u \in Threads :
              (pc[t] \in SectionPcs /\ pc[u] \in SectionPcs) => t = u)
    /\ [](\A t \in Threads : pc[t] \in SectionPcs <=> wlock = t)
    /\ []((\A t \in Threads : pc[t] = "idle") => wlock = 0)
    /\ \A t \in Threads : (pc[t] # "idle") ~> (pc[t] = "idle")

C21_Witness ==
    \E t, u \in Threads :
        /\ t # u
        /\ wlock = t
        /\ pc[t] = "d3"
        /\ local[t].exc = "KeyError"
        /\ frame[u].op = "setdefault"
        /\ pc[u] = "s0"

\* thread t can execute its next statement now
CanStep(t) == ENABLED (ThrNext /\ pc'[t] # pc[t])

\* C22: a thread in __contains__ or __len__ is never at an acquire() nor
\* holds the lock, and can always execute its next statement, whoever holds
\* the lock; its statements change neither the store, the queue nor the
\* lock; and when no other thread is in a call, __contains__ gives whether
\* the key is stored and __len__ the number of stored entries.
C22_ContainsAndLenUnguarded ==
    /\ [](\A t \in Threads :
              frame[t].op \in Unguarded
              => /\ pc[t] \notin AcquirePcs \cup SectionPcs
                 /\ wlock # t
                 /\ CanStep(t))
    /\ [][\A t \in Threads :
              (frame[t].op \in Unguarded /\ pc'[t] # pc[t])
              => UNCHANGED <<_mapping, _queue, wlock>>]_vars
    /\ [][\A t \in Threads :
              (/\ pc[t] \in {"in0", "len0"}
               /\ pc'[t] = "u1"
               /\ \A u \in Threads \ {t} : pc[u] = "idle")
              => local'[t].rv = IF frame[t].op = "contains"
                                THEN frame[t].key \in DOMAIN _mapping
                                ELSE Cardinality(DOMAIN _mapping)]_vars

C22_Witness ==
    \E t, u \in Threads :
        /\ t # u
        /\ wlock = u
        /\ frame[u].op = "delitem"
        /\ pc[u] = "d2"
        /\ frame[t].op = "contains"
        /\ frame[t].key = frame[u].key
        /\ pc[t] = "u1"
        /\ local[t].rv = TRUE

\* C23: a thread that, holding the lock, has found its key in the store
\* (after rv = self._mapping[key] in __getitem__, after key in self._mapping
\* in __setitem__, after del self._mapping[key] in __delitem__) finds the
\* key in the queue too: self._remove(key) never raises ValueError, so the
\* except ValueError branches are never taken.
C23_DefensiveBranchNeverTaken ==
    \A t \in Threads :
        pc[t] \in {"g2", "g3", "s2", "d2"} => frame[t].key \in Range(_queue)

C23_Witness ==
    \E t, u \in Threads :
        /\ t # u
        /\ wlock = t
        /\ frame[t].op = "delitem"
        /\ pc[t] = "d2"
        /\ frame[t].key \in Range(_queue)
        /\ frame[u].op = "setdefault"
        /\ frame[u].key = frame[t].key
        /\ pc[u] = "s0"

=============================================================================
